---------------------------- MODULE Spec2Model ----------------------------
(***************************************************************************)
(* A model of the geometry kernel of pyautocad: APoint and Vector          *)
(* (pyautocad/types.py) and ALine, ACircle, APolyline                      *)
(* (pyautocad/entities.py).                                                *)
(*                                                                         *)
(* Python objects live in a heap (a sequence of arrays of doubles), names  *)
(* hold references into it, and every action is one call of the library    *)
(* made by a client.  Doubles are modelled by exact rationals <<n, d>> in  *)
(* lowest terms; the inputs are kept to values for which double arithmetic *)
(* is exact.                                                               *)
(***************************************************************************)
EXTENDS Integers, Sequences, FiniteSets, TLC

VARIABLES
    IS_PY3,     \* pyautocad.compat.IS_PY3: the interpreter the library runs under
    heap,       \* the APoint objects: heap[i] is the array of doubles of object i
    p,          \* the name p: a reference (heap index)
    q,          \* a second name bound to the object p was first bound to
    call,       \* the last library call: its operation, operands and the heap before
    ret,        \* what the last call returned or raised
    line,       \* the ALine objects: a sequence of [start, end] references
    circle,     \* the ACircle objects: a sequence of [center, radius]
    polyline,   \* the APolyline objects: a sequence of [points], each a sequence of references
    vec,        \* the Vector objects: a sequence of [coordinates, dimension, error]
    steps       \* calls made so far

vars == <<IS_PY3, heap, p, q, call, ret, line, circle, polyline, vec, steps>>

\* ------------------------------------------------------------------ bounds
MaxSteps == 2
MaxAppends == 3
MaxVecs == 2

\* ------------------------------------------------------- doubles as rationals
Abs(n) == IF n < 0 THEN -n ELSE n

RECURSIVE GCD(_, _)
GCD(a, b) == IF b = 0 THEN a ELSE GCD(b, a % b)

\* the rational n/d (d # 0) in lowest terms with a positive denominator
Rat(n, d) ==
    LET g == GCD(Abs(n), Abs(d))
        s == IF d < 0 THEN -1 ELSE 1
    IN  <<s * (n \div g), Abs(d) \div g>>

Num(n) == <<n, 1>>
RAdd(a, b) == Rat(a[1] * b[2] + b[1] * a[2], a[2] * b[2])
RSub(a, b) == Rat(a[1] * b[2] - b[1] * a[2], a[2] * b[2])
RMul(a, b) == Rat(a[1] * b[1], a[2] * b[2])
RDiv(a, b) == Rat(a[1] * b[2], a[2] * b[1])
RLeq(a, b) == a[1] * b[2] <= b[1] * a[2]
RAbs(a) == <<Abs(a[1]), a[2]>>
IsZero(a) == a[1] = 0

\* ------------------------------------------------------------ Python values
\* A value: kind is its type ("APoint" values are references, id a heap
\* index), seq its items (a scalar holds its number as seq[1]).
Val(k, i, s) == [kind |-> k, id |-> i, seq |-> s]
None == Val("None", 0, <<>>)
NotImplemented == Val("NotImplemented", 0, <<>>)
PyInt(n) == Val("int", 0, <<Num(n)>>)
PyFloat(r) == Val("float", 0, <<r>>)
PyList(s) == Val("list", 0, s)
PyTuple(s) == Val("tuple", 0, s)
PyArray(s) == Val("array", 0, s)
PyBool(b) == Val("bool", IF b THEN 1 ELSE 0, <<>>)
PyStr(s) == Val("str", 0, s)
Ref(i) == Val("APoint", i, <<>>)
Raise(e) == Val(e, 0, <<>>)
Exceptions == {"TypeError", "ValueError", "ZeroDivisionError", "AttributeError",
               "InvalidOperation"}
IsExc(v) == v.kind \in Exceptions
IsScalar(v) == v.kind \in {"int", "float"}

\* the items of a sequence value; an APoint's items are in the heap
Items(h, v) == IF v.kind = "APoint" THEN h[v.id] ELSE v.seq

\* what a call leaves behind: the object store it worked on and the value
\* returned or raised
Out(h, r) == [h |-> h, r |-> r]
Alloc(h, s) == Out(Append(h, s), Ref(Len(h) + 1))

\* ------------------------------------------------------------------ APoint
\* APoint.type_check: isinstance(t, (array.array, list, tuple)) and len(t) == 3
\* (an APoint is an array.array)
type_check(h, t) ==
    /\ t.kind \in {"APoint", "array", "list", "tuple"}
    /\ Len(Items(h, t)) = 3

\* a slip: a sequence of any length is taken as the components
APoint_new_any_length(h, x_or_seq, y, z) ==
    IF x_or_seq.kind \in {"APoint", "array", "list", "tuple"} THEN Alloc(h, Items(h, x_or_seq))
    ELSE IF IsScalar(x_or_seq) THEN Alloc(h, <<x_or_seq.seq[1], y, z>>)
    ELSE Out(h, Raise("TypeError"))

\* APoint.__new__(cls, x_or_seq, y, z): array('d', ...) takes real numbers only
APoint_new(h, x_or_seq, y, z) ==
    IF type_check(h, x_or_seq) THEN Alloc(h, Items(h, x_or_seq))
    ELSE IF IsScalar(x_or_seq) THEN Alloc(h, <<x_or_seq.seq[1], y, z>>)
    ELSE Out(h, Raise("TypeError"))

\* operator.add, sub, mul, truediv, div on doubles
Apply(op, a, b) ==
    CASE op = "add" -> RAdd(a, b)
      [] op = "sub" -> RSub(a, b)
      [] op = "mul" -> RMul(a, b)
      [] op \in {"truediv", "div"} -> RDiv(a, b)

\* the exception the operator raises on these operands, or "" when it raises none
OpError(op, b) ==
    IF op = "div" /\ IS_PY3 THEN "AttributeError"
    ELSE IF op \in {"truediv", "div"} /\ IsZero(b) THEN "ZeroDivisionError"
    ELSE ""

\* the i-th operand of a componentwise operation: a scalar serves every component
Component(h, p2, i) == IF IsScalar(p2) THEN p2.seq[1] ELSE Items(h, p2)[i]

\* APoint.__iop(self, p2, op): the receiver's three items are assigned, self returned
iop(h, self, p2, op) ==
    LET e == OpError(op, Component(h, p2, 1))
    IN  IF e # "" THEN Out(h, Raise(e))
        ELSE Out([h EXCEPT ![self] = [i \in 1..Len(h[self]) |->
                        IF i <= 3 THEN Apply(op, h[self][i], Component(h, p2, i))
                        ELSE h[self][i]]],
                 Ref(self))

\* a slip: the binary operation works on the receiver and returns it
left_op_inplace(h, p1, p2, op) == iop(h, p1, p2, op)

\* APoint.__left_op(self, p1, p2, op): a new APoint
left_op(h, p1, p2, op) ==
    LET e == OpError(op, Component(h, p2, 1))
    IN  IF e # "" THEN Out(h, Raise(e))
        ELSE APoint_new(h, PyFloat(Apply(op, h[p1][1], Component(h, p2, 1))),
                        Apply(op, h[p1][2], Component(h, p2, 2)),
                        Apply(op, h[p1][3], Component(h, p2, 3)))

\* the methods the class body defines (the interpreter picks __div__'s body by IS_PY3)
APointMethods ==
    {"__add__", "__sub__", "__mul__", "__div__", "__radd__", "__rsub__", "__rmul__",
     "__floordiv__", "__truediv__", "__neg__", "__iadd__", "__isub__", "__imul__",
     "__idiv__", "__eq__"}

APoint__add__(h, self, other) ==
    IF type_check(h, other) THEN left_op(h, self, other, "add")
    ELSE Out(h, NotImplemented)

APoint__sub__(h, self, other) ==
    IF type_check(h, other) THEN left_op(h, self, other, "sub")
    ELSE Out(h, NotImplemented)

APoint__mul__(h, self, other) ==
    IF IsScalar(other) THEN left_op(h, self, other, "mul")
    ELSE Out(h, NotImplemented)

APoint__div__(h, self, other) ==
    IF IsScalar(other)
    THEN left_op(h, self, other, IF IS_PY3 THEN "truediv" ELSE "div")
    ELSE Out(h, NotImplemented)

\* a slip: the negation scales the receiver itself
APoint__neg__inplace(h, self) == iop(h, self, PyInt(-1), "mul")

APoint__neg__(h, self) == left_op(h, self, PyInt(-1), "mul")

APoint__iadd__(h, self, p2) ==
    IF type_check(h, p2) THEN iop(h, self, p2, "add")
    ELSE Out(h, NotImplemented)

APoint__isub__(h, self, p2) ==
    IF type_check(h, p2) THEN iop(h, self, p2, "sub")
    ELSE Out(h, NotImplemented)

APoint__imul__(h, self, p2) ==
    IF IsScalar(p2) THEN iop(h, self, p2, "mul")
    ELSE Out(h, NotImplemented)

APoint__idiv__(h, self, p2) ==
    IF IsScalar(p2) THEN iop(h, self, p2, "div")
    ELSE Out(h, NotImplemented)

\* APoint.__eq__(self, other)
APoint__eq__(h, self, other) ==
    IF other.kind \notin {"APoint", "array", "list", "tuple"} THEN FALSE
    ELSE h[self] = Items(h, other)

\* the method of the class bound to a name
Method(h, name, self, other) ==
    CASE name \in {"__add__", "__radd__"} -> APoint__add__(h, self, other)
      [] name \in {"__sub__", "__rsub__"} -> APoint__sub__(h, self, other)
      [] name \in {"__mul__", "__rmul__"} -> APoint__mul__(h, self, other)
      [] name \in {"__div__", "__floordiv__", "__truediv__"} -> APoint__div__(h, self, other)
      [] name = "__neg__" -> APoint__neg__(h, self)
      [] name = "__iadd__" -> APoint__iadd__(h, self, other)
      [] name = "__isub__" -> APoint__isub__(h, self, other)
      [] name = "__imul__" -> APoint__imul__(h, self, other)
      [] name = "__idiv__" -> APoint__idiv__(h, self, other)

\* The method the interpreter looks up for a compound assignment and the
\* binary method it falls back to: Python 3 maps / to __truediv__ and /= to
\* __itruediv__, Python 2 to __div__ and __idiv__.
InplaceSlot(sym) ==
    CASE sym = "+" -> "__iadd__"
      [] sym = "-" -> "__isub__"
      [] sym = "*" -> "__imul__"
      [] sym = "/" -> IF IS_PY3 THEN "__itruediv__" ELSE "__idiv__"

BinarySlot(sym) ==
    CASE sym = "+" -> "__add__"
      [] sym = "-" -> "__sub__"
      [] sym = "*" -> "__mul__"
      [] sym = "/" -> IF IS_PY3 THEN "__truediv__" ELSE "__div__"

\* self sym other: the binary method, and TypeError when it is not supported
\* (none of the operands modelled here offers a reflected method for an APoint)
Binary(h, self, sym, other) ==
    LET b == Method(h, BinarySlot(sym), self, other)
    IN  IF b.r = NotImplemented THEN Out(h, Raise("TypeError")) ELSE b

\* self sym= other: the in-place method when the class defines one and it
\* supports the operand, else the binary operation
Inplace(h, self, sym, other) ==
    IF InplaceSlot(sym) \in APointMethods
    THEN LET i == Method(h, InplaceSlot(sym), self, other)
         IN  IF i.r = NotImplemented THEN Binary(h, self, sym, other) ELSE i
    ELSE Binary(h, self, sym, other)

\* the reflected method the interpreter looks up on the right operand
ReflectedSlot(sym) ==
    CASE sym = "+" -> "__radd__"
      [] sym = "-" -> "__rsub__"

\* other sym self, for a list, tuple, array or number other on the left: the
\* left operand has no number method that takes an APoint, so the APoint's
\* reflected method is called with (self, other); when that is not supported,
\* + falls to the left operand's concatenation, which a list and a tuple
\* refuse and an array('d') performs, and - has nothing left to try
Reflected(h, other, sym, self) ==
    LET r == Method(h, ReflectedSlot(sym), self, other)
    IN  IF r.r # NotImplemented THEN r
        ELSE IF sym = "+" /\ other.kind = "array" THEN Out(h, PyArray(other.seq \o h[self]))
        ELSE Out(h, Raise("TypeError"))

\* ------------------------------------------------------------------- ALine
\* APoint(*seq): the items of seq are the arguments x_or_seq, y and z
APoint_star(h, seq) ==
    IF seq.kind \notin {"list", "tuple", "array"} \/ Len(seq.seq) \notin 1..3
    THEN Out(h, Raise("TypeError"))
    ELSE LET s == seq.seq
         IN  APoint_new(h, PyFloat(s[1]),
                        IF Len(s) >= 2 THEN s[2] ELSE Num(0),
                        IF Len(s) >= 3 THEN s[3] ELSE Num(0))

\* a slip: the endpoint is a copy of the APoint given
Endpoint_copy(h, point) ==
    IF point.kind = "APoint" THEN APoint_new(h, point, Num(0), Num(0))
    ELSE APoint_star(h, point)

\* one endpoint of ALine.__init__
Endpoint(h, point) == IF point.kind = "APoint" THEN Out(h, point) ELSE APoint_star(h, point)

\* ALine.__init__(self, start_point, end_point): the heap and the new ALine, or the error
ALine__init__(h, start_point, end_point) ==
    LET s == Endpoint(h, start_point)
    IN  IF IsExc(s.r) THEN s
        ELSE LET e == Endpoint(s.h, end_point)
             IN  IF IsExc(e.r) THEN e
                 ELSE Out(e.h, [kind |-> "ALine", start |-> s.r.id, end |-> e.r.id])

\* ALine.middle: the items of the APoint it returns
middle(h, l) == [i \in 1..3 |-> RDiv(RAdd(h[l.start][i], h[l.end][i]), Num(2))]

\* distance(p1, p2) is the square root of this sum
sum_sq(a, b) ==
    RAdd(RAdd(RMul(RSub(a[1], b[1]), RSub(a[1], b[1])),
              RMul(RSub(a[2], b[2]), RSub(a[2], b[2]))),
         RMul(RSub(a[3], b[3]), RSub(a[3], b[3])))

\* the names the class body of ALine defines
ALineMethods == {"__init__", "length", "middle", "__str__"}

\* ALine.name: the lookup of a name on the class (object, its only base,
\* offers none of the names looked up here)
ALine_getattr(name) == IF name \in ALineMethods THEN PyStr(<<name>>) ELSE Raise("AttributeError")

\* a == b for two ALine objects: the class defines no __eq__, so the
\* comparison is object's, which is identity
ALine_equals(a, b) == a = b

\* ----------------------------------------------------------------- ACircle
\* a slip: only a negative radius is refused
ACircle__init__negative(pnt_center, radius) ==
    IF pnt_center = None \/ ~RLeq(Num(0), radius.seq[1])
    THEN Raise("ValueError")
    ELSE [kind |-> "ACircle", center |-> pnt_center, radius |-> radius]

\* ACircle.__init__(self, pnt_center, radius): the new ACircle, or the error
ACircle__init__(pnt_center, radius) ==
    IF pnt_center = None \/ RLeq(radius.seq[1], Num(0))
    THEN Raise("ValueError")
    ELSE [kind |-> "ACircle", center |-> pnt_center, radius |-> radius]

\* ACircle.diameter(self)
diameter(c) == Val(c.radius.kind, 0, <<RMul(c.radius.seq[1], Num(2))>>)

\* --------------------------------------------------------------- APolyline
\* what a call on a polyline leaves behind: the heap, the points list and
\* None or the error raised
PolyOut(h, pts, r) == [h |-> h, points |-> pts, r |-> r]

\* APolyline.append(self, pnt_or_list)
append(h, pts, pnt_or_list) ==
    IF pnt_or_list.kind = "None" THEN PolyOut(h, pts, None)
    ELSE LET pts1 == IF pnt_or_list.kind = "APoint" THEN Append(pts, pnt_or_list.id)
                     ELSE pts
         IN  IF pnt_or_list.kind \in {"list", "tuple"} /\ Len(pnt_or_list.seq) >= 2
             THEN LET a == APoint_new(h, pnt_or_list, Num(0), Num(0))
                  IN  IF IsExc(a.r) THEN PolyOut(h, pts1, a.r)
                      ELSE PolyOut(a.h, Append(pts1, a.r.id), None)
             ELSE PolyOut(h, pts1, None)

\* for pnt in pnts: self.append(pnt), up to the first error
RECURSIVE append_all(_, _, _)
append_all(h, pts, pnts) ==
    IF pnts = <<>> THEN PolyOut(h, pts, None)
    ELSE LET a == append(h, pts, Head(pnts))
         IN  IF IsExc(a.r) THEN a ELSE append_all(a.h, a.points, Tail(pnts))

\* isinstance(x, classinfo) takes a type or a tuple of types as classinfo and
\* raises TypeError for anything else; no value here is a type, so the one
\* classinfo it takes is the empty tuple, of which nothing is an instance
isinstance_raises(classinfo) ==
    ~(classinfo.kind = "tuple" /\ \A i \in 1..Len(classinfo.seq) : classinfo.seq[i].kind = "type")

\* APolyline.__init__(self, pnts): the condition is
\* pnts is not None and (isinstance(pnts, pnts) or isinstance(pnts, tuple))
APolyline__init__(h, pnts) ==
    IF pnts.kind = "None" THEN PolyOut(h, <<>>, None)
    ELSE IF isinstance_raises(pnts) THEN PolyOut(h, <<>>, Raise("TypeError"))
    ELSE IF pnts.kind = "tuple" THEN append_all(h, <<>>, pnts.seq)
    ELSE PolyOut(h, <<>>, None)

\* ------------------------------------------------------------------ Vector
\* Decimal(x): the number, or the exception raised.  A str holds its number as
\* seq[1] when it spells one; Decimal refuses a list or tuple that is not a
\* (sign, digits, exponent) triple, and none here is.
Decimal(x) ==
    CASE x.kind \in {"int", "float", "Decimal"} -> [exc |-> "", val |-> x.seq[1]]
      [] x.kind = "str" -> IF Len(x.seq) = 1 THEN [exc |-> "", val |-> x.seq[1]]
                           ELSE [exc |-> "InvalidOperation", val |-> Num(0)]
      [] x.kind \in {"list", "tuple"} -> [exc |-> "ValueError", val |-> Num(0)]
      [] OTHER -> [exc |-> "TypeError", val |-> Num(0)]

\* [Decimal(x) for x in coordinates]: the exception of the first item that raises, or ""
RECURSIVE first_error(_)
first_error(items) ==
    IF items = <<>> THEN ""
    ELSE IF Decimal(Head(items)).exc # "" THEN Decimal(Head(items)).exc
    ELSE first_error(Tail(items))

\* not coordinates: None, an empty sequence or string, a zero
falsy(x) ==
    \/ x.kind = "None"
    \/ x.kind \in {"list", "tuple", "array", "str"} /\ x.seq = <<>>
    \/ IsScalar(x) /\ IsZero(x.seq[1])

\* the default of error, 1e10, which is beyond the integers of the model
\* checker: written 1/0, which the comparison by cross-multiplication places
\* above every number reached here
DefaultError == <<1, 0>>

\* what the except clauses of Vector.__init__ make of an exception raised in
\* the try block: ValueError and TypeError are raised anew, any other passes
reraised(e) ==
    CASE e = "ValueError" -> "ValueError"
      [] e = "TypeError" -> "TypeError"
      [] OTHER -> e

\* Vector.__init__(self, coordinates, error): the new Vector, or the error
\* (of the values passed here, the ones that cannot be iterated are scalars)
Vector__init__(coordinates, error) ==
    LET e == IF falsy(coordinates) THEN "ValueError"
             ELSE IF coordinates.kind \notin {"list", "tuple", "array"} THEN "TypeError"
             ELSE first_error(coordinates.seq)
    IN  IF e # "" THEN Raise(reraised(e))
        ELSE [kind |-> "Vector",
              coordinates |-> [i \in 1..Len(coordinates.seq) |-> Decimal(coordinates.seq[i]).val],
              dimension |-> Len(coordinates.seq),
              error |-> error]

\* a slip: the tolerance of the right operand decides
Vector__eq__right(self, v) ==
    IF v.kind # "Vector" \/ v.dimension # self.dimension THEN FALSE
    ELSE \A i \in 1..self.dimension :
            RLeq(RAbs(RSub(v.coordinates[i], self.coordinates[i])), v.error)

\* Vector.__eq__(self, v)
Vector__eq__(self, v) ==
    IF v.kind # "Vector" \/ v.dimension # self.dimension THEN FALSE
    ELSE \A i \in 1..self.dimension :
            RLeq(RAbs(RSub(v.coordinates[i], self.coordinates[i])), self.error)

\* a list of Decimals
Decimals(s) == Val("list", 0, [i \in 1..Len(s) |-> Val("Decimal", 0, <<s[i]>>)])

\* Vector.__mul__(self, v)
Vector__mul__(self, v) ==
    IF IsScalar(v)
    THEN Vector__init__(Decimals([i \in 1..self.dimension |->
                                     RMul(self.coordinates[i], Decimal(v).val)]),
                        DefaultError)
    ELSE NotImplemented

\* Vector.__truediv__(self, v): 1.0 / v raises for a zero v; the float
\* 1.0 / v is taken as the exact reciprocal
Vector__truediv__(self, v) ==
    IF IsZero(v.seq[1]) THEN Raise("ZeroDivisionError")
    ELSE Vector__mul__(self, PyFloat(RDiv(Num(1), v.seq[1])))

\* the methods the class body defines
VectorMethods ==
    {"__init__", "__str__", "__eq__", "__add__", "__sub__", "__mul__", "__truediv__",
     "__getitem__", "__abs__", "__radd__", "__rsub__", "__rmul__", "magnitude", "normalized"}

\* the sum under the square root of Vector.__abs__
RECURSIVE sum_squares(_)
sum_squares(s) == IF s = <<>> THEN Num(0) ELSE RAdd(RMul(Head(s), Head(s)), sum_squares(Tail(s)))

\* the whole numbers with a whole square root, and that root
IsSquare(n) == \E k \in 0..n : k * k = n
Root(n) == CHOOSE k \in 0..n : k * k = n

\* Vector.__abs__(self), for the vectors whose norm is a rational
Vector__abs__(self) ==
    LET q2 == sum_squares(self.coordinates) IN <<Root(q2[1]), Root(q2[2])>>

\* self / _magnitude: the interpreter looks up __truediv__ (Python 3) or
\* __div__ (Python 2); a float offers no reflected division by a Vector
Vector_div(self, v) ==
    IF BinarySlot("/") \in VectorMethods THEN Vector__truediv__(self, v)
    ELSE Raise("TypeError")

\* Vector.normalized(self)
normalized(self) ==
    LET d == Vector_div(self, PyFloat(Vector__abs__(self)))
    IN  IF d.kind = "ZeroDivisionError"
        THEN Vector__init__(PyList(<<PyInt(0), PyInt(0), PyInt(0)>>), DefaultError)
        ELSE d

\* ------------------------------------------------------------ the client
\* a sequence of whole numbers as doubles
Nums(s) == [i \in 1..Len(s) |-> Num(s[i])]

\* the objects there are
Store == [heap |-> heap, line |-> line, circle |-> circle, polyline |-> polyline, vec |-> vec]

\* the record of a call: the method or statement, its receiver and arguments,
\* and the objects and the binding of p before it
Call(op, self, args) == [op |-> op, self |-> self, args |-> args, pre |-> Store, p |-> p]
NoCall == [op |-> "", self |-> 0, args |-> <<>>, pre |-> <<>>, p |-> 0]

\* the points a client starts from
InitPoints == {Nums(<<2, 4, 6>>), Nums(<<10, 10, 0>>), Nums(<<-1, 0, 3>>)}

\* the operands a client passes: every APoint of the heap, sequences of
\* length 3 and of other lengths, scalars, None
SeqOperands ==
    {PyList(Nums(<<1, 1, 1>>)), PyTuple(Nums(<<0, 1, 2>>)), PyArray(Nums(<<2, 0, 1>>)),
     PyList(Nums(<<1, 2>>)), PyTuple(Nums(<<1, 2, 3, 4>>))}
ScalarOperands == {PyInt(2), PyInt(0), PyFloat(Rat(1, 2))}
Operands(h) == {Ref(i) : i \in 1..Len(h)} \cup SeqOperands \cup ScalarOperands \cup {None}

\* a call of a method of p: the heap and the result change, no name is rebound
CallMethod(name, args) ==
    /\ steps < MaxSteps
    /\ LET r == Method(heap, name, p, args[1])
       IN  /\ heap' = r.h
           /\ ret' = r.r
    /\ call' = Call(name, p, args)
    /\ steps' = steps + 1
    /\ UNCHANGED <<IS_PY3, p, q, line, circle, polyline, vec>>

\* p.__add__(other)
Add == \E o \in Operands(heap) : CallMethod("__add__", <<o>>)
\* p.__sub__(other)
Sub == \E o \in Operands(heap) : CallMethod("__sub__", <<o>>)

\* -x, for any APoint x there is
Neg ==
    /\ steps < MaxSteps
    /\ \E x \in 1..Len(heap) :
          LET r == APoint__neg__(heap, x)
          IN  /\ heap' = r.h
              /\ ret' = r.r
              /\ call' = Call("__neg__", x, <<>>)
    /\ steps' = steps + 1
    /\ UNCHANGED <<IS_PY3, p, q, line, circle, polyline, vec>>

\* the statement p sym= other: p is bound to what the operation returns
Assign(sym, other) ==
    /\ steps < MaxSteps
    /\ LET r == Inplace(heap, p, sym, other)
       IN  /\ heap' = r.h
           /\ ret' = r.r
           /\ p' = IF IsExc(r.r) THEN p ELSE r.r.id
    /\ call' = Call(sym, p, <<other>>)
    /\ steps' = steps + 1
    /\ UNCHANGED <<IS_PY3, q, line, circle, polyline, vec>>

\* p += other
IAdd == \E o \in Operands(heap) : Assign("+", o)
\* p -= other
ISub == \E o \in Operands(heap) : Assign("-", o)
\* p *= other
IMul == \E o \in Operands(heap) : Assign("*", o)
\* p /= other
IDiv == \E o \in Operands(heap) : Assign("/", o)

\* the x, y and z setters: p[i - 1] = value
SetComponent ==
    /\ steps < MaxSteps
    /\ \E i \in 1..3, v \in {Num(7)} :
          /\ heap' = [heap EXCEPT ![p][i] = v]
          /\ call' = Call("set", p, <<PyInt(i - 1), PyFloat(v)>>)
    /\ ret' = None
    /\ steps' = steps + 1
    /\ UNCHANGED <<IS_PY3, p, q, line, circle, polyline, vec>>

\* ------------------------------------------------------- the point kernel
InitPoint ==
    /\ IS_PY3 \in BOOLEAN
    /\ \E p0 \in InitPoints : heap = <<p0, Nums(<<1, 2, 3>>)>>
    /\ p = 1
    /\ q = 1
    /\ call = NoCall
    /\ ret = None
    /\ line = <<>>
    /\ circle = <<>>
    /\ polyline = <<>>
    /\ vec = <<>>
    /\ steps = 0

NextPoint == Add \/ Sub \/ Neg \/ IAdd \/ ISub \/ IMul \/ IDiv \/ SetComponent

SpecPoint == InitPoint /\ [][NextPoint]_vars

\* ------------------------------------------------- construction of points
\* what a client passes to APoint: one argument (the newest APoint, a
\* sequence of 3 or another number of items, a scalar, None), or a scalar x
\* with y, or with y and z (given with a sequence, y and z are not used)
PointArgs(h) ==
    {<<x>> : x \in {Ref(Len(h)), None, PyInt(2)} \cup SeqOperands}
        \cup {<<PyInt(1), PyInt(2)>>, <<PyFloat(Rat(1, 2)), PyInt(2), PyInt(3)>>,
              <<PyTuple(Nums(<<0, 1, 2>>)), PyInt(5), PyInt(6)>>}

\* the statement p = APoint(x_or_seq[, y[, z]]), y and z defaulting to 0.0
NewPoint ==
    /\ steps < MaxSteps
    /\ \E a \in PointArgs(heap) :
          LET r == APoint_new(heap, a[1],
                              IF Len(a) >= 2 THEN a[2].seq[1] ELSE Num(0),
                              IF Len(a) >= 3 THEN a[3].seq[1] ELSE Num(0))
          IN  /\ heap' = r.h
              /\ ret' = r.r
              /\ p' = IF IsExc(r.r) THEN p ELSE r.r.id
              /\ call' = Call("APoint", 0, a)
    /\ steps' = steps + 1
    /\ UNCHANGED <<IS_PY3, q, line, circle, polyline, vec>>

\* p * other
Mul == \E o \in ScalarOperands \cup {None} : CallMethod("__mul__", <<o>>)
\* p / other: the method the interpreter looks up for /
Div == \E o \in ScalarOperands \cup {None} : CallMethod(BinarySlot("/"), <<o>>)

\* the client has made p = APoint(2, 4, 6)
InitConstruct ==
    /\ IS_PY3 \in BOOLEAN
    /\ heap = <<Nums(<<2, 4, 6>>)>>
    /\ p = 1
    /\ q = 1
    /\ call = NoCall
    /\ ret = None
    /\ line = <<>>
    /\ circle = <<>>
    /\ polyline = <<>>
    /\ vec = <<>>
    /\ steps = 0

NextConstruct ==
    \/ NewPoint \/ SetComponent
    \/ Add \/ Sub \/ Mul \/ Div \/ Neg
    \/ IAdd \/ ISub \/ IMul \/ IDiv

SpecConstruct == InitConstruct /\ [][NextConstruct]_vars

\* -------------------------------------------------------------- the lines
\* what a client passes as an endpoint: an APoint, coordinate sequences, None
LineArgs(h) ==
    {Ref(i) : i \in 1..Len(h)}
        \cup {PyList(Nums(<<10, 10>>)), PyTuple(Nums(<<20, 20, 5>>)), None}

\* ALine(start_point, end_point)
NewLine ==
    /\ steps < MaxSteps
    /\ \E a \in LineArgs(heap), b \in LineArgs(heap) :
          LET r == ALine__init__(heap, a, b)
          IN  /\ heap' = r.h
              /\ line' = IF IsExc(r.r) THEN line ELSE Append(line, r.r)
              /\ ret' = IF IsExc(r.r) THEN r.r ELSE Val("ALine", Len(line) + 1, <<>>)
              /\ call' = Call("ALine", 0, <<a, b>>)
    /\ steps' = steps + 1
    /\ UNCHANGED <<IS_PY3, p, q, circle, polyline, vec>>

NextLine == NewLine \/ IAdd \/ ISub \/ IMul \/ IDiv \/ SetComponent

SpecLine == InitPoint /\ [][NextLine]_vars

\* ------------------------------------------------------------ the circles
\* the centres and the radii a client passes
Centers(h) ==
    {Ref(i) : i \in 1..Len(h)} \cup {PyList(Nums(<<1, 2>>)), PyTuple(Nums(<<0, 0, 0>>)), None}
Radii == {PyInt(5), PyInt(0), PyInt(-1), PyFloat(Rat(1, 2)), PyFloat(Rat(-3, 2))}

\* ACircle(pnt_center, radius)
NewCircle ==
    /\ steps < MaxSteps
    /\ \E c \in Centers(heap), r \in Radii :
          LET new == ACircle__init__(c, r)
          IN  /\ circle' = IF IsExc(new) THEN circle ELSE Append(circle, new)
              /\ ret' = IF IsExc(new) THEN new ELSE Val("ACircle", Len(circle) + 1, <<>>)
              /\ call' = Call("ACircle", 0, <<c, r>>)
    /\ steps' = steps + 1
    /\ UNCHANGED <<IS_PY3, heap, p, q, line, polyline, vec>>

\* c.diameter(), for any ACircle c there is
Diameter ==
    /\ steps < MaxSteps
    /\ \E k \in 1..Len(circle) :
          /\ ret' = diameter(circle[k])
          /\ call' = Call("diameter", k, <<>>)
    /\ steps' = steps + 1
    /\ UNCHANGED <<IS_PY3, heap, p, q, line, circle, polyline, vec>>

NextCircle == NewCircle \/ Diameter

SpecCircle == InitPoint /\ [][NextCircle]_vars

\* ---------------------------------------------------------- the polylines
\* what a client passes to APolyline(): nothing, or a list or tuple of
\* points and coordinate sequences
PolyArgs ==
    {None, Val("tuple", 0, <<>>), Val("list", 0, <<>>),
     Val("list", 0, <<PyList(Nums(<<3, 4, 5>>))>>),
     Val("tuple", 0, <<Ref(1), PyTuple(Nums(<<1, 2, 3>>))>>),
     Val("list", 0, <<Ref(1), Ref(2)>>)}

\* what a client passes to append
AppendArgs(h) ==
    {Ref(i) : i \in 1..Len(h)} \cup
    {PyList(Nums(<<1, 2>>)), PyList(Nums(<<3, 4, 5>>)), PyTuple(Nums(<<1, 2, 3>>)),
     PyTuple(Nums(<<7, 8>>)), PyList(Nums(<<1>>)), PyArray(Nums(<<1, 2, 3>>)), None}

\* APolyline(pnts), when the client has no polyline yet
NewPolyline ==
    /\ polyline = <<>>
    /\ \E pnts \in PolyArgs :
          LET r == APolyline__init__(heap, pnts)
          IN  /\ heap' = r.h
              /\ polyline' = IF IsExc(r.r) THEN polyline
                             ELSE <<[kind |-> "APolyline", points |-> r.points]>>
              /\ ret' = IF IsExc(r.r) THEN r.r ELSE Val("APolyline", 1, <<>>)
              /\ call' = Call("APolyline", 0, <<pnts>>)
    /\ UNCHANGED <<IS_PY3, p, q, line, circle, vec, steps>>

\* polyline.append(pnt_or_list): the points appended before an error stay
PolyAppend ==
    /\ polyline # <<>>
    /\ steps < MaxAppends
    /\ \E o \in AppendArgs(heap) :
          LET r == append(heap, polyline[1].points, o)
          IN  /\ heap' = r.h
              /\ polyline' = [polyline EXCEPT ![1].points = r.points]
              /\ ret' = r.r
              /\ call' = Call("append", 1, <<o>>)
    /\ steps' = steps + 1
    /\ UNCHANGED <<IS_PY3, p, q, line, circle, vec>>

NextPolyline == NewPolyline \/ PolyAppend

SpecPolyline == InitPoint /\ [][NextPolyline]_vars

\* ------------------------------------------------------------ the vectors
\* the coordinates a client passes: empty, numbers (also spelled as a str),
\* and items that are no numbers
VecArgs ==
    {Val("list", 0, <<>>), Val("tuple", 0, <<>>),
     Val("list", 0, <<PyStr(<<>>)>>), Val("list", 0, <<None>>),
     Val("list", 0, <<PyInt(1), PyStr(<<>>), None>>),
     Val("list", 0, <<PyInt(1), None, PyStr(<<>>)>>),
     Val("list", 0, <<PyList(Nums(<<1, 2>>))>>),
     Val("list", 0, <<PyInt(0)>>), Val("tuple", 0, <<PyInt(0), PyInt(0)>>),
     Val("list", 0, <<PyInt(0), PyInt(0), PyInt(0)>>),
     Val("list", 0, <<PyInt(3), PyInt(4)>>),
     Val("list", 0, <<PyStr(<<Rat(5, 2)>>), PyInt(3)>>)}

\* the tolerances a client passes, and the default
Tolerances == {Num(1), DefaultError}

VRef(i) == Val("Vector", i, <<>>)

\* Vector(coordinates, error)
NewVector ==
    /\ Len(vec) < MaxVecs
    /\ \E c \in VecArgs, e \in Tolerances :
          LET new == Vector__init__(c, e)
          IN  /\ vec' = IF IsExc(new) THEN vec ELSE Append(vec, new)
              /\ ret' = IF IsExc(new) THEN new ELSE VRef(Len(vec) + 1)
              /\ call' = Call("Vector", 0, <<c, PyFloat(e)>>)
    /\ UNCHANGED <<IS_PY3, heap, p, q, line, circle, polyline, steps>>

\* v == w, for any Vector v there is and any Vector or other value w
VectorEq ==
    /\ \E i \in 1..Len(vec) :
          \/ \E j \in 1..Len(vec) :
                /\ ret' = PyBool(Vector__eq__(vec[i], vec[j]))
                /\ call' = Call("__eq__", i, <<VRef(j)>>)
          \/ \E w \in {PyList(Nums(<<3, 4>>)), None} :
                /\ ret' = PyBool(Vector__eq__(vec[i], w))
                /\ call' = Call("__eq__", i, <<w>>)
    /\ UNCHANGED <<IS_PY3, heap, p, q, line, circle, polyline, vec, steps>>

\* v.normalized(), for any Vector v there is whose norm is a rational
Normalized ==
    /\ Len(vec) <= MaxVecs
    /\ \E i \in 1..Len(vec) :
          /\ IsSquare(sum_squares(vec[i].coordinates)[1])
          /\ IsSquare(sum_squares(vec[i].coordinates)[2])
          /\ LET new == normalized(vec[i])
             IN  /\ vec' = IF IsExc(new) THEN vec ELSE Append(vec, new)
                 /\ ret' = IF IsExc(new) THEN new ELSE VRef(Len(vec) + 1)
          /\ call' = Call("normalized", i, <<>>)
    /\ UNCHANGED <<IS_PY3, heap, p, q, line, circle, polyline, steps>>

InitVector ==
    /\ IS_PY3 \in BOOLEAN
    /\ heap = <<>>
    /\ p = 0
    /\ q = 0
    /\ call = NoCall
    /\ ret = None
    /\ line = <<>>
    /\ circle = <<>>
    /\ polyline = <<>>
    /\ vec = <<>>
    /\ steps = 0

NextVector == NewVector \/ VectorEq \/ Normalized

SpecVector == InitVector /\ [][NextVector]_vars

\* ------------------------------------------------- the comparison of lines
\* the offsets a client adds to a point
Offsets == {PyList(<<Rat(3, 5), Rat(4, 5), Num(0)>>), PyList(Nums(<<0, 0, 0>>)),
            PyTuple(Nums(<<1, 1, 1>>))}

\* l = ALine(start, start + offset), for any APoint start there is
NewLineFrom ==
    /\ steps < MaxSteps
    /\ \E s \in 1..Len(heap), o \in Offsets :
          LET e == Binary(heap, s, "+", o)
              r == ALine__init__(e.h, Ref(s), e.r)
          IN  /\ heap' = r.h
              /\ line' = IF IsExc(r.r) THEN line ELSE Append(line, r.r)
              /\ ret' = IF IsExc(r.r) THEN r.r ELSE Val("ALine", Len(line) + 1, <<>>)
              /\ call' = Call("ALine", 0, <<Ref(s), o>>)
    /\ steps' = steps + 1
    /\ UNCHANGED <<IS_PY3, p, q, circle, polyline, vec>>

\* ALine.create_from_vector(direction, start): the name is looked up on the
\* class before anything is called
CreateFromVector ==
    /\ \E d \in 1..Len(vec), s \in 1..Len(heap) :
          /\ IsExc(ALine_getattr("create_from_vector"))
          /\ ret' = ALine_getattr("create_from_vector")
          /\ call' = Call("create_from_vector", 0, <<VRef(d), Ref(s)>>)
    /\ UNCHANGED <<IS_PY3, heap, p, q, line, circle, polyline, vec, steps>>

\* l == m, for any two ALine objects there are
LineEq ==
    /\ \E i \in 1..Len(line), j \in 1..Len(line) :
          /\ ret' = PyBool(ALine_equals(i, j))
          /\ call' = Call("==", i, <<Val("ALine", j, <<>>)>>)
    /\ UNCHANGED <<IS_PY3, heap, p, q, line, circle, polyline, vec, steps>>

\* the client has made p1 = APoint(1, 0, 0) and Vector([3, 4, 0])
InitEqual ==
    /\ IS_PY3 \in BOOLEAN
    /\ heap = <<Nums(<<1, 0, 0>>)>>
    /\ p = 1
    /\ q = 1
    /\ call = NoCall
    /\ ret = None
    /\ line = <<>>
    /\ circle = <<>>
    /\ polyline = <<>>
    /\ vec = <<Vector__init__(PyList(<<PyInt(3), PyInt(4), PyInt(0)>>), DefaultError)>>
    /\ steps = 0

NextEqual == NewLineFrom \/ CreateFromVector \/ LineEq

SpecEqual == InitEqual /\ [][NextEqual]_vars

\* ----------------------------------------------------- reflected operands
\* what a client puts on the left of an APoint
LeftOperands == SeqOperands \cup {PyArray(Nums(<<1, 2>>)), PyInt(2)}

\* the expression other sym p
ReflectedCall(sym, other) ==
    /\ steps < MaxSteps
    /\ LET r == Reflected(heap, other, sym, p)
       IN  /\ heap' = r.h
           /\ ret' = r.r
    /\ call' = Call(ReflectedSlot(sym), p, <<other>>)
    /\ steps' = steps + 1
    /\ UNCHANGED <<IS_PY3, p, q, line, circle, polyline, vec>>

\* other + p
ReflectedAdd == \E o \in LeftOperands : ReflectedCall("+", o)
\* other - p
ReflectedSub == \E o \in LeftOperands : ReflectedCall("-", o)

NextReflected == ReflectedAdd \/ ReflectedSub \/ Sub \/ Neg \/ SetComponent

SpecReflected == InitPoint /\ [][NextReflected]_vars

\* ================================================================== claims
\* the componentwise result of op on the items a and the operand o (heap h)
Componentwise(h, op, a, o) == [i \in 1..3 |-> Apply(op, a[i], Component(h, o, i))]

\* the objects of heap h0 are all in h, unchanged
Kept(h0, h) == /\ Len(h) >= Len(h0)
               /\ \A i \in 1..Len(h0) : h[i] = h0[i]

\* v is a reference to an APoint made after heap h0
Fresh(h0, v) == v.kind = "APoint" /\ v.id > Len(h0)

\* C9: for p and an operand o that is a Point3 or a 3-element sequence, p + o
\* and p - o return a new Point3 holding the componentwise sum / difference
\* and leave p and o unchanged; for any other operand they return the
\* 'not supported' sentinel.
C9_AddSub ==
    call.op \in {"__add__", "__sub__"} =>
        LET h0 == call.pre.heap
            o == call.args[1]
        IN  IF o.kind \in {"APoint", "list", "tuple", "array"} /\ Len(Items(h0, o)) = 3
            THEN /\ Fresh(h0, ret)
                 /\ Len(heap) = Len(h0) + 1
                 /\ heap[ret.id] = Componentwise(h0, IF call.op = "__add__" THEN "add" ELSE "sub",
                                                 h0[call.self], o)
                 /\ Kept(h0, heap)
            ELSE ret = NotImplemented /\ heap = h0

\* C9 witness: Point3(10,10,0) - [1,1,1] gave a new Point3(9,9,-1) and left
\* the receiver as it was
C9_Witness ==
    /\ call.op = "__sub__"
    /\ call.pre.heap[call.self] = Nums(<<10, 10, 0>>)
    /\ call.args[1] = PyList(Nums(<<1, 1, 1>>))
    /\ ret.kind = "APoint"
    /\ heap[ret.id] = Nums(<<9, 9, -1>>)
    /\ heap[call.self] = Nums(<<10, 10, 0>>)

\* C10: negation returns a new Point3 equal to p scaled by -1 and leaves p
\* unchanged, and negating twice gives a value equal to p, for every Point3.
C10_Negate ==
    /\ \A x \in 1..Len(heap) :
          LET n1 == APoint__neg__(heap, x)
              n2 == APoint__neg__(n1.h, n1.r.id)
          IN  /\ ~IsExc(n1.r) /\ ~IsExc(n2.r)
              /\ APoint__eq__(n2.h, n2.r.id, Ref(x))
    /\ call.op = "__neg__" =>
          LET h0 == call.pre.heap
          IN  /\ Fresh(h0, ret)
              /\ heap[ret.id] = [i \in 1..3 |-> RMul(h0[call.self][i], Num(-1))]
              /\ Kept(h0, heap)

\* C10 witness: the negation of a negation of p is a third object equal to p
C10_Witness ==
    /\ call.op = "__neg__"
    /\ call.self > 2
    /\ ret.kind = "APoint"
    /\ ret.id # p
    /\ heap[call.self] = Nums(<<-2, -4, -6>>)
    /\ APoint__eq__(heap, ret.id, Ref(p))

\* the operator of a compound assignment
OpName(sym) == CASE sym = "+" -> "add" [] sym = "-" -> "sub" [] sym = "*" -> "mul"
                 [] sym = "/" -> "truediv"

\* C4: each of +=, -= (with a Point3 or a 3-element sequence), *= and /= (with
\* a numeric scalar) updates the three components of the receiver itself to the
\* componentwise result and returns that same instance, so that p stays bound
\* to the object every other reference to it sees and no new Point3 is made.
C4_InPlace ==
    LET h0 == call.pre.heap
        o == call.args[1]
    IN  (/\ call.op \in {"+", "-", "*", "/"}
         /\ IF call.op \in {"+", "-"}
            THEN o.kind \in {"APoint", "list", "tuple", "array"} /\ Len(Items(h0, o)) = 3
            ELSE IsScalar(o) /\ (call.op = "/" => ~IsZero(o.seq[1])))
        => /\ ret = Ref(call.self)
           /\ p = call.p
           /\ heap = [h0 EXCEPT ![call.self] =
                          Componentwise(h0, OpName(call.op), h0[call.self], o)]
           /\ q = call.self => heap[q] = heap[p]

\* what an ALine shows: its start, its end, its middle and the square of its length
LineView(h, l) == <<h[l.start], h[l.end], middle(h, l), sum_sq(h[l.start], h[l.end])>>

\* C5 (as claimed): once a Line is constructed, no later call changes its
\* start, end, midpoint or length; in particular no in-place mutation of the
\* Point3 it was constructed from.
C5_ByValue ==
    [][\A k \in 1..Len(line) : LineView(heap', line[k]) = LineView(heap, line[k])]_vars

\* C5 (amended): a Line holds the Point3 objects it is given, not copies (an
\* endpoint given as a coordinate sequence is a new Point3), so an in-place
\* mutation of a Point3 shows in every Line that holds it, and only there.
C5_ByReference ==
    LET h0 == call.pre.heap
    IN  /\ (call.op = "ALine" /\ ret.kind = "ALine") =>
              LET l == line[ret.id]
                  a == call.args[1]
                  b == call.args[2]
              IN  /\ IF a.kind = "APoint" THEN l.start = a.id ELSE l.start > Len(h0)
                  /\ IF b.kind = "APoint" THEN l.end = b.id ELSE l.end > Len(h0)
                  /\ Kept(h0, heap)
        /\ call.op \in {"+", "-", "*", "/", "set"} =>
              \A k \in 1..Len(line) : \A e \in {line[k].start, line[k].end} :
                  IF e # call.self THEN heap[e] = h0[e]
                  ELSE IF call.op = "set"
                  THEN heap[e] = [h0[e] EXCEPT ![call.args[1].seq[1][1] + 1] = call.args[2].seq[1]]
                  ELSE IF ret = Ref(call.self)
                  THEN heap[e] = Componentwise(h0, OpName(call.op), h0[e], call.args[1])
                  ELSE heap[e] = h0[e]

\* C5 witness: a Line was constructed with p as its start, p += [1,1,1]
\* followed, and the Line's start and middle are no longer what they were
C5_Witness ==
    /\ Len(line) = 1
    /\ call.op = "+"
    /\ call.args[1] = PyList(Nums(<<1, 1, 1>>))
    /\ line[1].start = call.self
    /\ line[1].end # call.self
    /\ heap[line[1].start] # call.pre.heap[line[1].start]
    /\ middle(heap, line[1]) # middle(call.pre.heap, line[1])

\* C6: constructing a Circle fails with ValueError, and makes no circle,
\* exactly when the center is None or the radius is <= 0; otherwise it succeeds
\* and the circle holds the center and the radius as given; diameter() is
\* twice the radius.
C6_Circle ==
    /\ call.op = "ACircle" =>
          LET c == call.args[1]
              r == call.args[2]
          IN  IF c = None \/ r.seq[1][1] <= 0
              THEN ret = Raise("ValueError") /\ circle = call.pre.circle
              ELSE /\ ret = Val("ACircle", Len(call.pre.circle) + 1, <<>>)
                   /\ Len(circle) = Len(call.pre.circle) + 1
                   /\ \A k \in 1..Len(call.pre.circle) : circle[k] = call.pre.circle[k]
                   /\ circle[ret.id].center = c
                   /\ circle[ret.id].radius = r
    /\ call.op = "diameter" =>
          /\ ret.seq[1] = RAdd(circle[call.self].radius.seq[1], circle[call.self].radius.seq[1])
          /\ circle = call.pre.circle
    /\ call.op \in {"ACircle", "diameter"} => heap = call.pre.heap

\* C6 witness: a circle of radius 5 around p, whose diameter is 10
C6_Witness ==
    /\ call.op = "diameter"
    /\ Len(circle) = 1
    /\ circle[1].center = Ref(p)
    /\ circle[1].radius = PyInt(5)
    /\ ret = PyInt(10)

\* the vertex a coordinate sequence stands for: Point3(x, y, 0) or Point3(x, y, z)
Vertex(s) == <<s[1], s[2], IF Len(s) >= 3 THEN s[3] ELSE Num(0)>>

\* pts is pts0 with one new Point3 of items v appended
OneMore(h0, h, pts0, pts, v) ==
    /\ Len(pts) = Len(pts0) + 1
    /\ \A i \in 1..Len(pts0) : pts[i] = pts0[i]
    /\ pts[Len(pts)] > Len(h0)
    /\ pts[Len(pts)] <= Len(h)
    /\ h[pts[Len(pts)]] = v
    /\ Kept(h0, h)

\* C1: append adds exactly one Point3 per non-null argument, in call order: a
\* Point3 is appended as given, a coordinate sequence of length 2 as
\* Point3(x, y, 0), one of length 3 as Point3(x, y, z); None changes nothing.
C1_Append ==
    call.op = "append" =>
        LET h0 == call.pre.heap
            pts0 == call.pre.polyline[1].points
            pts == polyline[1].points
            o == call.args[1]
        IN  CASE o.kind = "None" -> pts = pts0 /\ heap = h0 /\ ret = None
              [] o.kind = "APoint" -> pts = Append(pts0, o.id) /\ heap = h0 /\ ret = None
              [] o.kind \in {"list", "tuple"} /\ Len(o.seq) \in {2, 3} ->
                    ret = None /\ OneMore(h0, heap, pts0, pts, Vertex(o.seq))
              [] OTHER -> TRUE

\* C2: constructing a Polyline with a list or tuple of points succeeds and
\* gives the polyline whose vertices are those points, converted as by append,
\* in the order given; constructing it with no argument gives no vertices.
C2_Construct ==
    call.op = "APolyline" =>
        LET pnts == call.args[1]
        IN  /\ ret = Val("APolyline", 1, <<>>)
            /\ Len(polyline) = 1
            /\ Len(polyline[1].points) = Len(pnts.seq)
            /\ \A i \in 1..Len(pnts.seq) :
                  heap[polyline[1].points[i]] =
                      IF pnts.seq[i].kind = "APoint" THEN heap[pnts.seq[i].id]
                      ELSE Vertex(pnts.seq[i].seq)
            /\ \A i \in 1..Len(pnts.seq) :
                  pnts.seq[i].kind = "APoint" => polyline[1].points[i] = pnts.seq[i].id

\* C7: Vector construction raises the same error, ValueError, when the
\* coordinate sequence is empty and when an item cannot be converted to a
\* number; for a non-empty sequence of numbers it succeeds, with the length of
\* the sequence as its dimension.  Stated for sequences of numbers and strings,
\* as in VectorN([]) and VectorN(["a"]).
C7_Construct ==
    (/\ call.op = "Vector"
     /\ call.args[1].kind \in {"list", "tuple"}
     /\ \A i \in 1..Len(call.args[1].seq) :
           call.args[1].seq[i].kind \in {"int", "float", "str"})
        => LET c == call.args[1].seq
           IN  IF c = <<>> \/ \E i \in 1..Len(c) : c[i].kind = "str" /\ c[i].seq = <<>>
               THEN ret = Raise("ValueError") /\ vec = call.pre.vec
               ELSE /\ ret = VRef(Len(call.pre.vec) + 1)
                    /\ Len(vec) = Len(call.pre.vec) + 1
                    /\ vec[ret.id].dimension = Len(c)

\* C3: normalized() of a VectorN of any dimension n >= 1 whose magnitude is
\* zero raises nothing and returns the zero vector of dimension n.  Stated
\* for Python 3 (under Python 2 the division in normalized() finds no __div__
\* and raises TypeError whatever the vector).
C3_Normalized ==
    (/\ call.op = "normalized"
     /\ IS_PY3
     /\ \A i \in 1..vec[call.self].dimension : IsZero(vec[call.self].coordinates[i]))
        => /\ ret.kind = "Vector"
           /\ vec[ret.id].dimension = vec[call.self].dimension
           /\ \A i \in 1..vec[ret.id].dimension : IsZero(vec[ret.id].coordinates[i])

\* C8: v == w is true iff w is a VectorN of the dimension of v and every pair
\* of components differs by no more than the tolerance of v, the left operand;
\* the tolerance of w plays no part.
C8_Equality ==
    call.op = "__eq__" =>
        LET v == vec[call.self]
            w == call.args[1]
        IN  ret = PyBool(/\ w.kind = "Vector"
                         /\ vec[w.id].dimension = v.dimension
                         /\ \A i \in 1..v.dimension :
                               LET d == RSub(v.coordinates[i], vec[w.id].coordinates[i])
                               IN  Abs(d[1]) * v.error[2] <= v.error[1] * d[2])

\* C8 witness: v == w was true although two components differ by more than
\* the tolerance of w
C8_Witness ==
    /\ call.op = "__eq__"
    /\ ret = PyBool(TRUE)
    /\ call.args[1].kind = "Vector"
    /\ call.args[1].id # call.self
    /\ vec[call.self].error = DefaultError
    /\ vec[call.args[1].id].error = Num(1)
    /\ ~Vector__eq__(vec[call.args[1].id], vec[call.self])

\* C11: every Point3 has exactly 3 components in every reachable state: after
\* construction from three scalars (y and z defaulting to 0) or from a
\* 3-element sequence, and after any sequence of component assignments,
\* binary arithmetic and in-place arithmetic, the count never grows or shrinks.
C11_ThreeComponents ==
    /\ \A i \in 1..Len(heap) : Len(heap[i]) = 3
    /\ call.op = "APoint" /\ ~IsExc(ret) =>
          /\ Fresh(call.pre.heap, ret)
          /\ Kept(call.pre.heap, heap)
          /\ Len(call.args) = 1 /\ IsScalar(call.args[1]) =>
                heap[ret.id] = <<call.args[1].seq[1], Num(0), Num(0)>>
          /\ Len(call.args) = 2 /\ IsScalar(call.args[1]) =>
                heap[ret.id] = <<call.args[1].seq[1], call.args[2].seq[1], Num(0)>>
          /\ ~IsScalar(call.args[1]) =>
                /\ Len(Items(call.pre.heap, call.args[1])) = 3
                /\ heap[ret.id] = Items(call.pre.heap, call.args[1])
    /\ call.op = "APoint" /\ IsExc(ret) =>
          /\ heap = call.pre.heap
          /\ ~IsScalar(call.args[1])
          /\ Len(Items(call.pre.heap, call.args[1])) # 3

\* C11 witness: a Point3 built from one scalar, (2, 0, 0), was then divided in
\* place by 2 and holds the three components (1, 0, 0)
C11_Witness ==
    /\ call.op = "/"
    /\ call.self > 1
    /\ call.pre.heap[call.self] = Nums(<<2, 0, 0>>)
    /\ call.args[1] = PyInt(2)
    /\ ~IsExc(ret)
    /\ heap[ret.id] = Nums(<<1, 0, 0>>)
    /\ Len(heap[call.self]) = 3

\* the two lines of the store hold equal start points and equal end points
SameEnds(h, a, b) == h[a.start] = h[b.start] /\ h[a.end] = h[b.end]

\* C12: ALine.create_from_vector(direction, start) exists and returns a Line
\* equal to ALine(start, start + normalized(direction)), as for
\* Vector([3,4,0]) and APoint(1,0,0), where it equals
\* ALine(p1, p1 + [0.6, 0.8, 0]); two Lines with equal start and end points
\* compare equal.
C12_CreateFromVector ==
    /\ call.op = "create_from_vector" =>
          /\ ret.kind = "ALine"
          /\ LET l == line[ret.id]
                 s == call.args[2].id
                 n == normalized(vec[call.args[1].id])
             IN  /\ heap[l.start] = heap[s]
                 /\ heap[l.end] = [i \in 1..3 |-> RAdd(heap[s][i], n.coordinates[i])]
    /\ call.op = "==" /\ SameEnds(heap, line[call.self], line[call.args[1].id]) =>
          ret = PyBool(TRUE)

\* C13: with a Point3 p on the right and a raw 3-element sequence s on the
\* left, reflected dispatch keeps the operand order: s + p is the
\* componentwise s_i + p_i and s - p the componentwise s_i - p_i, so that
\* s - p equals -(p - s).
C13_Reflected ==
    LET h0 == call.pre.heap
        s == call.args[1]
    IN  (/\ call.op \in {"__radd__", "__rsub__"}
         /\ s.kind \in {"list", "tuple", "array"}
         /\ Len(s.seq) = 3)
        => /\ Fresh(h0, ret)
           /\ Kept(h0, heap)
           /\ heap[ret.id] =
                 [i \in 1..3 |-> Apply(IF call.op = "__radd__" THEN "add" ELSE "sub",
                                       s.seq[i], h0[call.self][i])]
           /\ call.op = "__rsub__" =>
                 LET d == APoint__sub__(h0, call.self, s)
                     n == APoint__neg__(d.h, d.r.id)
                 IN  heap[ret.id] = n.h[n.r.id]

=============================================================================
